---- MODULE Spec2Model ----
(***************************************************************************)
(* Model of the ingestion service (microservices/rust/ingestion-service):  *)
(* the process start-up in main.rs, the three handlers of routes.rs, the   *)
(* publisher wrapper of nats.rs, the request decoding of models.rs and the *)
(* error-to-response conversion of error.rs.                               *)
(*                                                                         *)
(* Strings the code inspects (source, content_type, the subject) are       *)
(* sequences of one-character strings, so that is_empty, trimming and      *)
(* format!("ingest.raw.{}", ..) are computed and not assumed.              *)
(* An Option<T> of the wire format is a sequence of length at most one.    *)
(***************************************************************************)
EXTENDS Integers, Sequences, FiniteSets, TLC

\* ------------------------------------------------------------------ bounds
MaxBatch == 2
MaxClock == 1

\* --------------------------------------------------------------- universes
\* Request slots: a slot holds one request from its arrival to its response.
Reqs == {1, 2}
\* The slots the sequential specification uses.
SeqReqs == {1}

None == <<>>
Some(x) == <<x>>

\* serde_json::Value, as far as the handlers look at it: null or not.
Null == "null"
Object == "object"

\* Ids Uuid::new_v4 may draw (callers supply 1 and 2).
GenIds == {8, 9}

SrcEmpty == <<>>
SrcBlank == <<" ">>
SrcArxiv == <<"s">>
CtEmpty == <<>>
CtA == <<"a">>
CtB == <<"B", " ", "/">>

\* The request bodies a caller may send for one record (id and timestamp
\* optional on the wire, models.rs 9 and 22).
RawValid ==
    { [id |-> i, source |-> SrcArxiv, content_type |-> c, payload |-> Object,
       timestamp |-> IF i = Some(1) THEN Some(0) ELSE None]
        : i \in {None, Some(1), Some(2)}, c \in {CtA, CtB} }

RawOdd ==
    { [id |-> Some(1), source |-> SrcEmpty, content_type |-> CtA,
       payload |-> Object, timestamp |-> None],
      [id |-> Some(2), source |-> SrcArxiv, content_type |-> CtEmpty,
       payload |-> Object, timestamp |-> None],
      [id |-> Some(1), source |-> SrcArxiv, content_type |-> CtB,
       payload |-> Null, timestamp |-> Some(0)],
      [id |-> None, source |-> SrcEmpty, content_type |-> CtEmpty,
       payload |-> Null, timestamp |-> None],
      [id |-> Some(2), source |-> SrcBlank, content_type |-> CtA,
       payload |-> Object, timestamp |-> None] }

RawRecords == RawValid \cup RawOdd

\* Further bodies sent to /ingest only: two checks failing at once, and a
\* timestamp that is not the time of the request.
RawExtra ==
    { [id |-> Some(1), source |-> SrcArxiv, content_type |-> CtEmpty,
       payload |-> Null, timestamp |-> None],
      [id |-> Some(2), source |-> SrcEmpty, content_type |-> CtA,
       payload |-> Null, timestamp |-> None],
      [id |-> None, source |-> SrcArxiv, content_type |-> CtA,
       payload |-> Object, timestamp |-> Some(7)] }

SingleRecords == RawRecords \cup RawExtra

RECURSIVE SeqsUpTo(_, _)
SeqsUpTo(S, n) ==
    IF n = 0 THEN {<<>>}
    ELSE LET shorter == SeqsUpTo(S, n - 1)
         IN  shorter \cup { Append(s, x) : s \in { t \in shorter : Len(t) = n - 1 }, x \in S }

\* The records sent in batches: the well-formed ones with a given id (two
\* content types) or none, and the malformed ones failing a single check.
BatchRecords ==
    { b \in RawValid :
        <<b.id, b.content_type>> \in { <<Some(1), CtA>>, <<Some(2), CtB>>, <<None, CtA>> } }
    \cup { b \in RawOdd : b.source # SrcEmpty \/ b.content_type # CtEmpty }

RawBatches == SeqsUpTo(BatchRecords, MaxBatch)

\* str::trim, for the one kind of whitespace the model's strings have.
RECURSIVE TrimStart(_)
TrimStart(str) ==
    IF Len(str) > 0 /\ Head(str) = " " THEN TrimStart(Tail(str)) ELSE str

RECURSIVE TrimEnd(_)
TrimEnd(str) ==
    IF Len(str) > 0 /\ str[Len(str)] = " "
    THEN TrimEnd(SubSeq(str, 1, Len(str) - 1)) ELSE str

Trim(str) == TrimEnd(TrimStart(str))

\* --------------------------------------------------------------- models.rs
\* Mutant: the id on the wire is ignored and a fresh one always drawn.
RawData_FreshId(raw, gen, t) ==
    [id |-> gen,
     source |-> raw.source,
     content_type |-> raw.content_type,
     payload |-> raw.payload,
     timestamp |-> IF raw.timestamp = None THEN t ELSE raw.timestamp[1],
     metadata |-> Null]

\* Deserialize for RawData: id defaults to Uuid::new_v4(), timestamp to
\* Utc::now(), metadata to Value::default().
RawData(raw, gen, t) ==
    [id |-> IF raw.id = None THEN gen ELSE raw.id[1],
     source |-> raw.source,
     content_type |-> raw.content_type,
     payload |-> raw.payload,
     timestamp |-> IF raw.timestamp = None THEN t ELSE raw.timestamp[1],
     metadata |-> Null]

\* Deserialize for BatchRawData: every item decoded on its own.
BatchRawData(raws, gens, t) ==
    [k \in 1..Len(raws) |-> RawData(raws[k], gens[k], t)]

\* ---------------------------------------------------------------- error.rs
NatsConnectionError(msg) == [kind |-> "NatsConnectionError", msg |-> msg]
NatsPublishError(msg) == [kind |-> "NatsPublishError", msg |-> msg]
ValidationError(msg) == [kind |-> "ValidationError", msg |-> msg]
InternalError(msg) == [kind |-> "InternalError", msg |-> msg]

\* Mutant: a refused publish answered as a bad gateway.
into_response_502(e) ==
    LET status == CASE e.kind = "NatsConnectionError" -> 503
                    [] e.kind = "NatsPublishError" -> 502
                    [] e.kind = "ValidationError" -> 400
                    [] e.kind = "InternalError" -> 500
    IN  [status |-> status,
         body |-> [error |-> [message |-> e.msg, code |-> status]]]

\* Mutant: the code of the body is always that of an internal error.
into_response_CodeFixed(e) ==
    LET status == CASE e.kind = "NatsConnectionError" -> 503
                    [] e.kind = "NatsPublishError" -> 500
                    [] e.kind = "ValidationError" -> 400
                    [] e.kind = "InternalError" -> 500
    IN  [status |-> status,
         body |-> [error |-> [message |-> e.msg, code |-> 500]]]

\* Mutant: an internal error answered as a bad request.
into_response_Internal400(e) ==
    LET status == CASE e.kind = "NatsConnectionError" -> 503
                    [] e.kind = "NatsPublishError" -> 500
                    [] e.kind = "ValidationError" -> 400
                    [] e.kind = "InternalError" -> 400
    IN  [status |-> status,
         body |-> [error |-> [message |-> e.msg, code |-> status]]]

into_response(e) ==
    LET status == CASE e.kind = "NatsConnectionError" -> 503
                    [] e.kind = "NatsPublishError" -> 500
                    [] e.kind = "ValidationError" -> 400
                    [] e.kind = "InternalError" -> 500
    IN  [status |-> status,
         body |-> [error |-> [message |-> e.msg, code |-> status]]]

\* ----------------------------------------------------------------- nats.rs
\* serde_json::to_vec of a RawData: the fields in declaration order.
to_vec(rec) ==
    <<rec.id, rec.source, rec.content_type, rec.payload, rec.timestamp, rec.metadata>>

\* What one publish call can come to: the encoder fails, the bus refuses,
\* or the message is sent.
PublishOutcomes == {"ok", "ser_err", "pub_err"}

\* NatsClient::publish: the error it returns, None on success.
publish(outcome) ==
    IF outcome = "ser_err" THEN Some(InternalError("JSON serialization error"))
    ELSE IF outcome = "pub_err" THEN Some(NatsPublishError("publish failed"))
    ELSE None

\* The record of one call of NatsClient::publish; bytes is what reached
\* client.publish (nothing when the encoder failed).
PublishCall(subject, rec, outcome, k) ==
    [subject |-> subject,
     payload |-> rec,
     bytes |-> IF outcome = "ser_err" THEN None ELSE Some(to_vec(rec)),
     outcome |-> outcome,
     item |-> k]

\* --------------------------------------------------------------- routes.rs
is_empty(s) == Len(s) = 0
is_null(v) == v = Null

SubjectPrefix == <<"i", "n", "g", "e", "s", "t", ".", "r", "a", "w", ".">>

\* Mutant: the content type made subject-safe before use.
Subject_Escaped(content_type) ==
    SubjectPrefix \o [k \in 1..Len(content_type) |->
                        IF content_type[k] = " " THEN "_" ELSE content_type[k]]

\* format!("ingest.raw.{}", content_type)
Subject(content_type) == SubjectPrefix \o content_type

\* Mutant: the payload check left out.
Validate_NoPayloadCheck(rec) ==
    IF is_empty(rec.source)
        THEN Some(ValidationError("Source field cannot be empty"))
    ELSE IF is_empty(rec.content_type)
        THEN Some(ValidationError("Content type field cannot be empty"))
    ELSE None

\* Mutant: the source trimmed before the emptiness check.
Validate_TrimSource(rec) ==
    IF is_empty(Trim(rec.source))
        THEN Some(ValidationError("Source field cannot be empty"))
    ELSE IF is_empty(rec.content_type)
        THEN Some(ValidationError("Content type field cannot be empty"))
    ELSE IF is_null(rec.payload)
        THEN Some(ValidationError("Payload cannot be null"))
    ELSE None

\* Mutant: the checks made in the opposite order.
Validate_PayloadFirst(rec) ==
    IF is_null(rec.payload)
        THEN Some(ValidationError("Payload cannot be null"))
    ELSE IF is_empty(rec.content_type)
        THEN Some(ValidationError("Content type field cannot be empty"))
    ELSE IF is_empty(rec.source)
        THEN Some(ValidationError("Source field cannot be empty"))
    ELSE None

\* The three checks of ingest_data, in order: the error of the first one
\* that fails, None when all pass.
Validate(rec) ==
    IF is_empty(rec.source)
        THEN Some(ValidationError("Source field cannot be empty"))
    ELSE IF is_empty(rec.content_type)
        THEN Some(ValidationError("Content type field cannot be empty"))
    ELSE IF is_null(rec.payload)
        THEN Some(ValidationError("Payload cannot be null"))
    ELSE None

\* Mutant: the batch loop does not look at the payload.
BatchItemInvalid_NoPayload(item) ==
    is_empty(item.source) \/ is_empty(item.content_type)

\* The condition under which the batch loop skips an item.
BatchItemInvalid(item) ==
    is_empty(item.source) \/ is_empty(item.content_type) \/ is_null(item.payload)

NoResp == [status |-> 0]

VARIABLES
    mainPc,          \* main: "connecting", "binding", "serving", "exited"
    connects,        \* number of calls of NatsClient::new
    nats_client,     \* main's nats_client: None until the connection is made
    busUp,           \* whether the bus accepts messages at the moment
    now,             \* Utc::now()
    pc,              \* per slot: "idle", "received", "loop", "published", "done"
    kind,            \* per slot: "none", "health", "single", "batch"
    raw,             \* per slot: the request body as sent (sequence of raw records)
    items,           \* per slot: the decoded body (payload / payload.items)
    idx,             \* per slot: number of items the batch loop has visited
    successful_ids,  \* per slot: the Vec of the batch loop
    calls,           \* per slot: the publish calls the request has made
    resp             \* per slot: the response, NoResp until there is one

vars == <<mainPc, connects, nats_client, busUp, now, pc, kind, raw, items, idx, successful_ids, calls, resp>>

reqVars == <<pc, kind, raw, items, idx, successful_ids, calls, resp>>

Init ==
    /\ mainPc = "connecting"
    /\ connects = 0
    /\ nats_client = None
    /\ busUp \in BOOLEAN
    /\ now = 0
    /\ pc = [r \in Reqs |-> "idle"]
    /\ kind = [r \in Reqs |-> "none"]
    /\ raw = [r \in Reqs |-> <<>>]
    /\ items = [r \in Reqs |-> <<>>]
    /\ idx = [r \in Reqs |-> 0]
    /\ successful_ids = [r \in Reqs |-> <<>>]
    /\ calls = [r \in Reqs |-> <<>>]
    /\ resp = [r \in Reqs |-> NoResp]

\* ----------------------------------------------------------------- main.rs
\* Mutant: a failed connection is logged and main goes on.
Connect_Lenient ==
    /\ mainPc = "connecting"
    /\ connects' = connects + 1
    /\ nats_client' = IF busUp THEN Some("client") ELSE None
    /\ mainPc' = "binding"
    /\ UNCHANGED <<busUp, now, reqVars>>

\* NatsClient::new(..).await? in main: the connection is made or main returns.
Connect ==
    /\ mainPc = "connecting"
    /\ connects' = connects + 1
    /\ nats_client' = IF busUp THEN Some("client") ELSE None
    /\ mainPc' = IF busUp THEN "binding" ELSE "exited"
    /\ UNCHANGED <<busUp, now, reqVars>>

\* TcpListener::bind(..).await? and axum::serve.
Serve ==
    /\ mainPc = "binding"
    /\ \E bound \in BOOLEAN : mainPc' = IF bound THEN "serving" ELSE "exited"
    /\ UNCHANGED <<connects, nats_client, busUp, now, reqVars>>

\* ------------------------------------------------------------- environment
BusChange ==
    /\ mainPc = "serving"
    /\ busUp' = ~busUp
    /\ UNCHANGED <<mainPc, connects, nats_client, now, reqVars>>

Tick ==
    /\ mainPc = "serving"
    /\ now < MaxClock
    /\ now' = now + 1
    /\ UNCHANGED <<mainPc, connects, nats_client, busUp, reqVars>>

\* A publish can succeed only while the bus is up.
CanOutcome(outcome) == outcome = "ok" => busUp

Free(r) == mainPc = "serving" /\ pc[r] = "idle"

\* axum::serve writes the response of a finished handler and drops the
\* request: nothing of it is kept.
Release(r) ==
    /\ pc[r] = "done"
    /\ pc' = [pc EXCEPT ![r] = "idle"]
    /\ kind' = [kind EXCEPT ![r] = "none"]
    /\ raw' = [raw EXCEPT ![r] = <<>>]
    /\ items' = [items EXCEPT ![r] = <<>>]
    /\ idx' = [idx EXCEPT ![r] = 0]
    /\ successful_ids' = [successful_ids EXCEPT ![r] = <<>>]
    /\ calls' = [calls EXCEPT ![r] = <<>>]
    /\ resp' = [resp EXCEPT ![r] = NoResp]
    /\ UNCHANGED <<mainPc, connects, nats_client, busUp, now>>

\* ------------------------------------------------------------ health_check
\* Mutant: health answers 503 while the bus is down.
health_check_BusChecked(r) ==
    /\ Free(r)
    /\ pc' = [pc EXCEPT ![r] = "done"]
    /\ kind' = [kind EXCEPT ![r] = "health"]
    /\ raw' = [raw EXCEPT ![r] = <<>>]
    /\ items' = [items EXCEPT ![r] = <<>>]
    /\ idx' = [idx EXCEPT ![r] = 0]
    /\ successful_ids' = [successful_ids EXCEPT ![r] = <<>>]
    /\ calls' = [calls EXCEPT ![r] = <<>>]
    /\ resp' = [resp EXCEPT ![r] =
            [status |-> IF busUp THEN 200 ELSE 503,
             body |-> [service |-> "ingestion-service",
                       status |-> IF busUp THEN "operational" ELSE "degraded",
                       timestamp |-> now]]]
    /\ UNCHANGED <<mainPc, connects, nats_client, busUp, now>>

health_check(r) ==
    /\ Free(r)
    /\ pc' = [pc EXCEPT ![r] = "done"]
    /\ kind' = [kind EXCEPT ![r] = "health"]
    /\ raw' = [raw EXCEPT ![r] = <<>>]
    /\ items' = [items EXCEPT ![r] = <<>>]
    /\ idx' = [idx EXCEPT ![r] = 0]
    /\ successful_ids' = [successful_ids EXCEPT ![r] = <<>>]
    /\ calls' = [calls EXCEPT ![r] = <<>>]
    /\ resp' = [resp EXCEPT ![r] =
            [status |-> 200,
             body |-> [service |-> "ingestion-service", status |-> "operational",
                       timestamp |-> now]]]
    /\ UNCHANGED <<mainPc, connects, nats_client, busUp, now>>

\* ------------------------------------------------------------- ingest_data
\* The Json<RawData> extractor: the body is decoded before the handler runs.
IngestReceive(r, Bodies) ==
    /\ Free(r)
    /\ \E body \in Bodies, gen \in GenIds :
        /\ raw' = [raw EXCEPT ![r] = <<body>>]
        /\ items' = [items EXCEPT ![r] = <<RawData(body, gen, now)>>]
    /\ pc' = [pc EXCEPT ![r] = "received"]
    /\ kind' = [kind EXCEPT ![r] = "single"]
    /\ idx' = [idx EXCEPT ![r] = 0]
    /\ successful_ids' = [successful_ids EXCEPT ![r] = <<>>]
    /\ calls' = [calls EXCEPT ![r] = <<>>]
    /\ resp' = [resp EXCEPT ![r] = NoResp]
    /\ UNCHANGED <<mainPc, connects, nats_client, busUp, now>>

\* ingest_data from its first line to the return of publish(..).await?.
IngestHandle(r, outcome) ==
    /\ pc[r] = "received" /\ kind[r] = "single"
    /\ CanOutcome(outcome)
    /\ LET payload == items[r][1]
           invalid == Validate(payload)
           failed == publish(outcome)
       IN  IF invalid # None
           THEN /\ pc' = [pc EXCEPT ![r] = "done"]
                /\ resp' = [resp EXCEPT ![r] = into_response(invalid[1])]
                /\ UNCHANGED calls
           ELSE /\ calls' = [calls EXCEPT ![r] =
                        Append(@, PublishCall(Subject(payload.content_type), payload, outcome, 1))]
                /\ IF failed # None
                   THEN /\ pc' = [pc EXCEPT ![r] = "done"]
                        /\ resp' = [resp EXCEPT ![r] = into_response(failed[1])]
                   ELSE /\ pc' = [pc EXCEPT ![r] = "published"]
                        /\ UNCHANGED resp
    /\ UNCHANGED <<mainPc, connects, nats_client, busUp, now, kind, raw, items, idx, successful_ids>>

\* Mutant: the response carries the timestamp of the record.
IngestRespond_RecordTimestamp(r) ==
    /\ pc[r] = "published" /\ kind[r] = "single"
    /\ pc' = [pc EXCEPT ![r] = "done"]
    /\ resp' = [resp EXCEPT ![r] =
            [status |-> 201,
             body |-> [status |-> "success", id |-> items[r][1].id,
                       timestamp |-> items[r][1].timestamp]]]
    /\ UNCHANGED <<mainPc, connects, nats_client, busUp, now, kind, raw, items, idx, successful_ids, calls>>

\* ingest_data after the publish: the IngestResponse and the 201.
IngestRespond(r) ==
    /\ pc[r] = "published" /\ kind[r] = "single"
    /\ pc' = [pc EXCEPT ![r] = "done"]
    /\ resp' = [resp EXCEPT ![r] =
            [status |-> 201,
             body |-> [status |-> "success", id |-> items[r][1].id, timestamp |-> now]]]
    /\ UNCHANGED <<mainPc, connects, nats_client, busUp, now, kind, raw, items, idx, successful_ids, calls>>

\* ------------------------------------------------------------ ingest_batch
\* The Json<BatchRawData> extractor.
BatchReceive(r, Bodies) ==
    /\ Free(r)
    /\ \E body \in Bodies :
        \E gens \in [1..Len(body) -> GenIds] :
            /\ raw' = [raw EXCEPT ![r] = body]
            /\ items' = [items EXCEPT ![r] = BatchRawData(body, gens, now)]
    /\ pc' = [pc EXCEPT ![r] = "received"]
    /\ kind' = [kind EXCEPT ![r] = "batch"]
    /\ idx' = [idx EXCEPT ![r] = 0]
    /\ successful_ids' = [successful_ids EXCEPT ![r] = <<>>]
    /\ calls' = [calls EXCEPT ![r] = <<>>]
    /\ resp' = [resp EXCEPT ![r] = NoResp]
    /\ UNCHANGED <<mainPc, connects, nats_client, busUp, now>>

\* Mutant: the empty batch is not refused.
BatchStart_NoEmptyCheck(r) ==
    /\ pc[r] = "received" /\ kind[r] = "batch"
    /\ pc' = [pc EXCEPT ![r] = "loop"]
    /\ successful_ids' = [successful_ids EXCEPT ![r] = <<>>]
    /\ UNCHANGED <<mainPc, connects, nats_client, busUp, now, kind, raw, items, idx, calls, resp>>

\* ingest_batch up to the loop: the empty batch is refused, otherwise the
\* Vec of successful ids is created.
BatchStart(r) ==
    /\ pc[r] = "received" /\ kind[r] = "batch"
    /\ IF is_empty(items[r])
       THEN /\ pc' = [pc EXCEPT ![r] = "done"]
            /\ resp' = [resp EXCEPT ![r] =
                    into_response(ValidationError("Batch contains no items"))]
       ELSE /\ pc' = [pc EXCEPT ![r] = "loop"]
            /\ UNCHANGED resp
    /\ successful_ids' = [successful_ids EXCEPT ![r] = <<>>]
    /\ UNCHANGED <<mainPc, connects, nats_client, busUp, now, kind, raw, items, idx, calls>>

\* Mutant: the id is put in front.
PushIfOk_Prepend(ids, item, failed) ==
    IF failed = None THEN <<item.id>> \o ids ELSE ids

\* Mutant: an id already collected is not collected again.
PushIfOk_Dedup(ids, item, failed) ==
    IF failed = None /\ \A j \in 1..Len(ids) : ids[j] # item.id
    THEN Append(ids, item.id) ELSE ids

\* The Vec after one item of the loop: the id is pushed when the publish
\* returned Ok.
PushIfOk(ids, item, failed) ==
    IF failed = None THEN Append(ids, item.id) ELSE ids

\* Mutant: a failed publish ends the loop.
BatchItem_AbortOnFailure(r, outcome) ==
    /\ pc[r] = "loop" /\ kind[r] = "batch"
    /\ idx[r] < Len(items[r])
    /\ LET k == idx[r] + 1
           item == items[r][k]
       IN  IF BatchItemInvalid(item)
           THEN /\ outcome = "pub_err"
                /\ idx' = [idx EXCEPT ![r] = @ + 1]
                /\ UNCHANGED <<calls, successful_ids>>
           ELSE /\ CanOutcome(outcome)
                /\ calls' = [calls EXCEPT ![r] =
                        Append(@, PublishCall(Subject(item.content_type), item, outcome, k))]
                /\ successful_ids' = [successful_ids EXCEPT ![r] =
                        PushIfOk(@, item, publish(outcome))]
                /\ idx' = [idx EXCEPT ![r] =
                        IF publish(outcome) = None THEN @ + 1 ELSE Len(items[r])]
    /\ UNCHANGED <<mainPc, connects, nats_client, busUp, now, pc, kind, raw, items, resp>>

\* Mutant: one Vec of successful ids shared by the batches in progress.
BatchItem_SharedVec(r, outcome) ==
    /\ pc[r] = "loop" /\ kind[r] = "batch"
    /\ idx[r] < Len(items[r])
    /\ LET k == idx[r] + 1
           item == items[r][k]
       IN  IF BatchItemInvalid(item)
           THEN /\ outcome = "pub_err"
                /\ UNCHANGED <<calls, successful_ids>>
           ELSE /\ CanOutcome(outcome)
                /\ calls' = [calls EXCEPT ![r] =
                        Append(@, PublishCall(Subject(item.content_type), item, outcome, k))]
                /\ successful_ids' =
                        [q \in Reqs |->
                            IF pc[q] = "loop"
                            THEN PushIfOk(successful_ids[q], item, publish(outcome))
                            ELSE successful_ids[q]]
    /\ idx' = [idx EXCEPT ![r] = @ + 1]
    /\ UNCHANGED <<mainPc, connects, nats_client, busUp, now, pc, kind, raw, items, resp>>

\* Mutant: a failed publish is tried a second time.
BatchItem_RetryOnce(r, outcome) ==
    /\ pc[r] = "loop" /\ kind[r] = "batch"
    /\ idx[r] < Len(items[r])
    /\ LET k == idx[r] + 1
           item == items[r][k]
           call == PublishCall(Subject(item.content_type), item, outcome, k)
       IN  IF BatchItemInvalid(item)
           THEN /\ outcome = "pub_err"
                /\ UNCHANGED <<calls, successful_ids>>
           ELSE /\ CanOutcome(outcome)
                /\ calls' = [calls EXCEPT ![r] =
                        IF publish(outcome) = None THEN Append(@, call)
                        ELSE Append(Append(@, call), call)]
                /\ successful_ids' = [successful_ids EXCEPT ![r] =
                        PushIfOk(@, item, publish(outcome))]
    /\ idx' = [idx EXCEPT ![r] = @ + 1]
    /\ UNCHANGED <<mainPc, connects, nats_client, busUp, now, pc, kind, raw, items, resp>>

\* One iteration of the loop of ingest_batch.
BatchItem(r, outcome) ==
    /\ pc[r] = "loop" /\ kind[r] = "batch"
    /\ idx[r] < Len(items[r])
    /\ LET k == idx[r] + 1
           item == items[r][k]
       IN  IF BatchItemInvalid(item)
           THEN /\ outcome = "pub_err"     \* no publish: the outcome is not looked at
                /\ UNCHANGED <<calls, successful_ids>>
           ELSE /\ CanOutcome(outcome)
                /\ calls' = [calls EXCEPT ![r] =
                        Append(@, PublishCall(Subject(item.content_type), item, outcome, k))]
                /\ successful_ids' = [successful_ids EXCEPT ![r] =
                        PushIfOk(@, item, publish(outcome))]
    /\ idx' = [idx EXCEPT ![r] = @ + 1]
    /\ UNCHANGED <<mainPc, connects, nats_client, busUp, now, pc, kind, raw, items, resp>>

\* Mutant: a batch none of whose items went through is refused.
BatchRespond_400WhenNone(r) ==
    /\ pc[r] = "loop" /\ kind[r] = "batch"
    /\ idx[r] = Len(items[r])
    /\ pc' = [pc EXCEPT ![r] = "done"]
    /\ resp' = [resp EXCEPT ![r] =
            IF successful_ids[r] = <<>>
            THEN into_response(ValidationError("No item could be ingested"))
            ELSE [status |-> 201,
                  body |-> [status |-> "success", count |-> Len(successful_ids[r]),
                            ids |-> successful_ids[r], timestamp |-> now]]]
    /\ UNCHANGED <<mainPc, connects, nats_client, busUp, now, kind, raw, items, idx, successful_ids, calls>>

\* ingest_batch after the loop: the BatchIngestResponse and the 201.
BatchRespond(r) ==
    /\ pc[r] = "loop" /\ kind[r] = "batch"
    /\ idx[r] = Len(items[r])
    /\ pc' = [pc EXCEPT ![r] = "done"]
    /\ resp' = [resp EXCEPT ![r] =
            [status |-> 201,
             body |-> [status |-> "success", count |-> Len(successful_ids[r]),
                       ids |-> successful_ids[r], timestamp |-> now]]]
    /\ UNCHANGED <<mainPc, connects, nats_client, busUp, now, kind, raw, items, idx, successful_ids, calls>>

SeqNext ==
    \/ Connect
    \/ Serve
    \/ BusChange
    \/ Tick
    \/ \E r \in SeqReqs : health_check(r)
    \/ \E r \in SeqReqs : IngestReceive(r, SingleRecords)
    \/ \E r \in SeqReqs, outcome \in PublishOutcomes : IngestHandle(r, outcome)
    \/ \E r \in SeqReqs : IngestRespond(r)
    \/ \E r \in SeqReqs : BatchReceive(r, RawBatches)
    \/ \E r \in SeqReqs : BatchStart(r)
    \/ \E r \in SeqReqs, outcome \in PublishOutcomes : BatchItem(r, outcome)
    \/ \E r \in SeqReqs : BatchRespond(r)
    \/ \E r \in SeqReqs : Release(r)

Spec == Init /\ [][SeqNext]_vars

\* ------------------------------------------------- concurrent requests
\* The bodies of the concurrent specification: two well-formed records with
\* ids of their own and a malformed one.
ConcRecords ==
    { [id |-> Some(1), source |-> SrcArxiv, content_type |-> CtA,
       payload |-> Object, timestamp |-> Some(0)],
      [id |-> Some(2), source |-> SrcArxiv, content_type |-> CtB,
       payload |-> Object, timestamp |-> Some(0)],
      [id |-> Some(1), source |-> SrcEmpty, content_type |-> CtA,
       payload |-> Object, timestamp |-> Some(0)] }

ConcBatches == SeqsUpTo(ConcRecords, MaxBatch)

ConcOutcomes == {"ok", "pub_err"}

\* Both slots take requests: the handlers of the two run interleaved at
\* their await points, sharing the one NatsClient.
ConcNext ==
    \/ Connect
    \/ Serve
    \/ \E r \in Reqs : IngestReceive(r, ConcRecords)
    \/ \E r \in Reqs, outcome \in ConcOutcomes : IngestHandle(r, outcome)
    \/ \E r \in Reqs : IngestRespond(r)
    \/ \E r \in Reqs : BatchReceive(r, ConcBatches)
    \/ \E r \in Reqs : BatchStart(r)
    \/ \E r \in Reqs, outcome \in ConcOutcomes : BatchItem(r, outcome)
    \/ \E r \in Reqs : BatchRespond(r)
    \/ \E r \in Reqs : Release(r)

SpecConc == Init /\ [][ConcNext]_vars

\* ------------------------------------------------------ batches to the end
\* Batches only, one at a time, the bus coming and going.
LiveNext ==
    \/ Connect
    \/ Serve
    \/ BusChange
    \/ \E r \in SeqReqs : BatchReceive(r, ConcBatches)
    \/ \E r \in SeqReqs : BatchStart(r)
    \/ \E r \in SeqReqs, outcome \in PublishOutcomes : BatchItem(r, outcome)
    \/ \E r \in SeqReqs : BatchRespond(r)
    \/ \E r \in SeqReqs : Release(r)

\* The runtime keeps polling a handler whose await has returned: a batch that
\* can take its next step takes it, every publish call returning.
LiveFairness ==
    \A r \in SeqReqs :
        /\ WF_vars(BatchStart(r))
        /\ WF_vars(\E outcome \in PublishOutcomes : BatchItem(r, outcome))
        /\ WF_vars(BatchRespond(r))

SpecLive == Init /\ [][LiveNext]_vars /\ LiveFairness
\* ===================================================================
\* Properties
\* ===================================================================
Batch(r) == kind[r] = "batch"
Single(r) == kind[r] = "single"
Done(r) == pc[r] = "done"

\* A record lacking one of the three things a record must have.
Lacking(rec) == rec.source = <<>> \/ rec.content_type = <<>> \/ rec.payload = "null"

CallsOf(r, k) == { j \in 1..Len(calls[r]) : calls[r][j].item = k }

\* The items of a batch that are well-formed and whose publish succeeded.
PublishedOk(r) ==
    { k \in 1..Len(items[r]) :
        /\ ~Lacking(items[r][k])
        /\ \E j \in CallsOf(r, k) : calls[r][j].outcome = "ok" }

RECURSIVE IdsOf(_, _, _)
IdsOf(its, chosen, k) ==
    IF k > Len(its) THEN <<>>
    ELSE (IF k \in chosen THEN <<its[k].id>> ELSE <<>>) \o IdsOf(its, chosen, k + 1)

\* C1: a non-empty batch answers with count = P = the number of well-formed
\* items whose publish succeeded, with P ids, and the ids are those of these
\* items in input order.
C1_BatchCountAndIds ==
    \A r \in Reqs :
        (Batch(r) /\ Done(r) /\ Len(items[r]) > 0) =>
            /\ resp[r].status = 201
            /\ resp[r].body.count = Cardinality(PublishedOk(r))
            /\ Len(resp[r].body.ids) = Cardinality(PublishedOk(r))
            /\ resp[r].body.ids = IdsOf(items[r], PublishedOk(r), 1)

C1_Witness ==
    \E r \in Reqs :
        /\ Batch(r) /\ Done(r) /\ Len(items[r]) = MaxBatch
        /\ PublishedOk(r) = {1, MaxBatch}
        /\ items[r][1].id # items[r][MaxBatch].id
        /\ resp[r].body.ids = <<items[r][1].id, items[r][MaxBatch].id>>

WellFormedUpTo(r, n) == { k \in 1..n : ~Lacking(items[r][k]) }

\* C2: the batch loop never stops early: of the items visited so far exactly
\* the well-formed ones have been given one publish call each, in input
\* order, whatever happened to earlier items; malformed items get none; and
\* the batch answers only after visiting every item.
C2_BatchNeverAborts ==
    \A r \in Reqs :
        (Batch(r) /\ pc[r] \in {"loop", "done"} /\ Len(items[r]) > 0) =>
            /\ Len(calls[r]) = Cardinality(WellFormedUpTo(r, idx[r]))
            /\ \A j \in 1..Len(calls[r]) : calls[r][j].item \in WellFormedUpTo(r, idx[r])
            /\ \A i, j \in 1..Len(calls[r]) : i < j => calls[r][i].item < calls[r][j].item
            /\ Done(r) => idx[r] = Len(items[r])

C2_Witness ==
    \E r \in Reqs :
        /\ Batch(r) /\ Done(r) /\ Len(items[r]) = MaxBatch
        /\ ~Lacking(items[r][1]) /\ ~Lacking(items[r][MaxBatch])
        /\ Len(calls[r]) >= 2
        /\ calls[r][1].item = 1 /\ calls[r][1].outcome = "pub_err"
        /\ calls[r][Len(calls[r])].item = MaxBatch

\* C3: a single record with empty source, empty content_type or null payload
\* is answered 400 and the publisher is never called for the request.
C3_InvalidSingleIs400 ==
    \A r \in Reqs :
        (Single(r) /\ Lacking(raw[r][1])) =>
            /\ calls[r] = <<>>
            /\ pc[r] # "published"
            /\ Done(r) => resp[r].status = 400

C3_Witness ==
    \E r \in Reqs :
        /\ Single(r) /\ Done(r) /\ resp[r].status = 400
        /\ raw[r][1].source # <<>> /\ raw[r][1].content_type # <<>>
        /\ raw[r][1].payload = "null"
        /\ calls[r] = <<>>

\* C4: a well-formed single record is published exactly once; when that
\* publish fails the answer is 500 or 503, never 201, and there is no second
\* publish call.
C4_SinglePublishOnce ==
    \A r \in Reqs :
        (Single(r) /\ ~Lacking(raw[r][1])) =>
            /\ Len(calls[r]) <= 1
            /\ pc[r] \in {"published", "done"} => Len(calls[r]) = 1
            /\ (Len(calls[r]) = 1 /\ calls[r][1].outcome # "ok") =>
                    /\ pc[r] = "done"
                    /\ resp[r].status \in {500, 503}

C4_Witness ==
    \E r \in Reqs :
        /\ Single(r) /\ Done(r) /\ ~Lacking(raw[r][1])
        /\ Len(calls[r]) = 1 /\ calls[r][1].outcome = "pub_err"
        /\ resp[r].status = 500

\* C5: a well-formed single record whose publish succeeds is answered 201,
\* "success", with the id the caller gave (the generated one when the caller
\* gave none), and the record handed to publish carries that id.
C5_SingleIdRoundTrip ==
    \A r \in Reqs :
        (Single(r) /\ Done(r) /\ ~Lacking(raw[r][1])
            /\ Len(calls[r]) = 1 /\ calls[r][1].outcome = "ok") =>
            /\ resp[r].status = 201
            /\ resp[r].body.status = "success"
            /\ raw[r][1].id # <<>> => resp[r].body.id = raw[r][1].id[1]
            /\ raw[r][1].id = <<>> =>
                    resp[r].body.id \in GenIds /\ resp[r].body.id = items[r][1].id
            /\ calls[r][1].payload.id = resp[r].body.id
            /\ calls[r][1].bytes[1][1] = resp[r].body.id

C5_Witness ==
    \E r \in Reqs :
        /\ Single(r) /\ Done(r) /\ resp[r].status = 201
        /\ raw[r][1].id = <<2>>
        /\ resp[r].body.id = 2
        /\ calls[r][1].bytes[1][1] = 2
\* C6: a batch with no items is answered 400 and no publish call is made.
C6_EmptyBatchIs400 ==
    \A r \in Reqs :
        (Batch(r) /\ raw[r] = <<>>) =>
            /\ calls[r] = <<>>
            /\ pc[r] # "loop"
            /\ Done(r) => resp[r].status = 400

C6_Witness ==
    \E r \in Reqs :
        /\ Batch(r) /\ Done(r) /\ raw[r] = <<>>
        /\ resp[r].status = 400 /\ calls[r] = <<>>

\* C7: a non-empty batch is always answered 201 "success", whatever its items
\* and whatever the publishes did; when no item is well-formed, or no publish
\* succeeded, the answer is 201 with count 0 and no ids.
C7_NonEmptyBatchIs201 ==
    \A r \in Reqs :
        (Batch(r) /\ Done(r) /\ Len(raw[r]) > 0) =>
            /\ resp[r].status = 201
            /\ resp[r].body.status = "success"
            /\ ((\A k \in 1..Len(raw[r]) : Lacking(raw[r][k]))
                    \/ (\A j \in 1..Len(calls[r]) : calls[r][j].outcome # "ok")) =>
                    resp[r].body.count = 0 /\ resp[r].body.ids = <<>>

C7_Witness ==
    \E r \in Reqs :
        /\ Batch(r) /\ Done(r) /\ Len(raw[r]) = MaxBatch
        /\ \A k \in 1..Len(raw[r]) : Lacking(raw[r][k])
        /\ resp[r].status = 201 /\ resp[r].body.count = 0

C7_WitnessAllFail ==
    \E r \in Reqs :
        /\ Batch(r) /\ Done(r) /\ Len(calls[r]) = MaxBatch
        /\ \A j \in 1..Len(calls[r]) : calls[r][j].outcome # "ok"
        /\ resp[r].status = 201 /\ resp[r].body.ids = <<>>

\* C8 as stated: a record whose source is empty after trimming fails
\* validation: ingest_one answers 400 without publishing and ingest_batch
\* makes no publish call for the item.
C8_TrimmedSourceRejected ==
    \A r \in Reqs :
        /\ (Single(r) /\ Trim(raw[r][1].source) = <<>>) =>
                /\ calls[r] = <<>>
                /\ Done(r) => resp[r].status = 400
        /\ Batch(r) =>
                \A k \in 1..Len(raw[r]) :
                    Trim(raw[r][k].source) = <<>> => CallsOf(r, k) = {}

\* C8 amended: source is checked for emptiness as it stands, untrimmed: a
\* record whose source is the empty string is answered 400 without a publish
\* (ingest_one) or skipped without a publish (ingest_batch), while a source
\* of spaces only passes the source check and the record, when its other
\* fields are in order, is published.
C8_EmptySourceRejected ==
    \A r \in Reqs :
        /\ (Single(r) /\ raw[r][1].source = <<>>) =>
                /\ calls[r] = <<>>
                /\ Done(r) => resp[r].status = 400
        /\ (Single(r) /\ Done(r) /\ raw[r][1].source # <<>>
                /\ Trim(raw[r][1].source) = <<>> /\ ~Lacking(raw[r][1])) =>
                /\ Len(calls[r]) = 1
                /\ resp[r].status # 400
        /\ Batch(r) =>
                \A k \in 1..Len(raw[r]) :
                    /\ raw[r][k].source = <<>> => CallsOf(r, k) = {}
                    /\ (k <= idx[r] /\ raw[r][k].source # <<>>
                            /\ Trim(raw[r][k].source) = <<>> /\ ~Lacking(raw[r][k])) =>
                            Cardinality(CallsOf(r, k)) = 1

C8_Witness ==
    \E r \in Reqs :
        /\ Batch(r) /\ Done(r) /\ Len(raw[r]) = MaxBatch
        /\ raw[r][1].source = <<>> /\ CallsOf(r, 1) = {}
        /\ raw[r][MaxBatch].source = <<" ">> /\ CallsOf(r, MaxBatch) # {}

C8_WitnessSingle ==
    \E r \in Reqs :
        /\ Single(r) /\ Done(r) /\ raw[r][1].source = <<>>
        /\ raw[r][1].content_type # <<>> /\ raw[r][1].payload # "null"
        /\ resp[r].status = 400 /\ calls[r] = <<>>

\* "ingest.raw." followed by the content type as it was sent.
TopicFor(content_type) ==
    <<"i", "n", "g", "e", "s", "t", ".", "r", "a", "w", ".">> \o content_type

\* C9: every publish call of ingest_one and ingest_batch is made on the topic
\* "ingest.raw." + content_type of the very record it publishes, the content
\* type taken as sent; each item of a batch goes by its own content type.
C9_TopicFromOwnContentType ==
    \A r \in Reqs :
        \A j \in 1..Len(calls[r]) :
            LET call == calls[r][j]
            IN  /\ call.item \in 1..Len(raw[r])
                /\ call.subject = TopicFor(raw[r][call.item].content_type)
                /\ call.payload = items[r][call.item]
                /\ call.outcome # "ser_err" => call.bytes[1][3] = raw[r][call.item].content_type

C9_Witness ==
    \E r \in Reqs :
        /\ Batch(r) /\ Len(calls[r]) >= 2
        /\ calls[r][1].subject = <<"i", "n", "g", "e", "s", "t", ".", "r", "a", "w", ".", "B", " ", "/">>
        /\ calls[r][2].subject = <<"i", "n", "g", "e", "s", "t", ".", "r", "a", "w", ".", "a">>

C9_WitnessSingle ==
    \E r \in Reqs :
        /\ Single(r) /\ Len(calls[r]) = 1
        /\ calls[r][1].subject = <<"i", "n", "g", "e", "s", "t", ".", "r", "a", "w", ".", "B", " ", "/">>

\* C10: whenever the service is serving, health() can be called and answers
\* 200 "operational", also while the bus is down, and makes no publish call.
C10_HealthAlways200 ==
    \A r \in SeqReqs :
        /\ (mainPc = "serving" /\ pc[r] = "idle") => ENABLED health_check(r)
        /\ kind[r] = "health" =>
                /\ Done(r)
                /\ resp[r].status = 200
                /\ resp[r].body.status = "operational"
                /\ calls[r] = <<>>

C10_Witness ==
    \E r \in Reqs :
        /\ kind[r] = "health" /\ Done(r) /\ ~busUp
        /\ resp[r].status = 200 /\ resp[r].body.status = "operational"
\* C11: start-up is fail-fast: NatsClient::new is called once, before the
\* service listens; when it fails main exits and no request is ever taken, so
\* every request that is handled (health, ingest, batch) is handled after a
\* successful connect.
C11_FailFastStartup ==
    /\ connects <= 1
    /\ mainPc = "connecting" <=> connects = 0
    /\ mainPc \in {"binding", "serving"} => nats_client # <<>>
    /\ nats_client = <<>> => \A r \in Reqs : pc[r] = "idle" /\ resp[r] = NoResp
    /\ \A r \in Reqs :
            (pc[r] # "idle" \/ kind[r] # "none") =>
                mainPc = "serving" /\ connects = 1 /\ nats_client # <<>>

C11_Witness ==
    \E r \in Reqs :
        /\ Single(r) /\ Done(r) /\ resp[r].status = 201
        /\ connects = 1 /\ nats_client # <<>>

C11_WitnessExit ==
    mainPc = "exited" /\ connects = 1 /\ nats_client = <<>>
\* One error of each kind AppError has.
ErrorsOfEveryKind ==
    { NatsConnectionError("m"), NatsPublishError("m"), ValidationError("m"), InternalError("m") }

ErrorShaped(response) ==
    /\ DOMAIN response = {"status", "body"}
    /\ DOMAIN response.body = {"error"}
    /\ DOMAIN response.body.error = {"message", "code"}
    /\ response.body.error.code = response.status

\* C12: every failure response of the handlers has the body
\* {error: {message, code}} with code equal to the HTTP status of that same
\* response, and so has the response of an error of each kind (validation,
\* publish, internal, connection).
C12_ErrorBodyCarriesStatus ==
    /\ \A r \in Reqs : resp[r].status >= 400 => ErrorShaped(resp[r])
    /\ \A e \in ErrorsOfEveryKind :
            /\ ErrorShaped(into_response(e))
            /\ into_response(e).status >= 400
            /\ into_response(e).body.error.message = e.msg

C12_Witness ==
    \E r \in Reqs :
        /\ Single(r) /\ Done(r) /\ resp[r].status = 400
        /\ resp[r].body.error.code = 400
        /\ resp[r].body.error.message = "Content type field cannot be empty"
\* C13: the checks run in the order source, content_type, payload and stop
\* at the first that fails: the reason of the 400 of ingest_one is that of
\* the first check the record violates.
C13_FirstViolationReported ==
    \A r \in Reqs :
        (Single(r) /\ Done(r) /\ Lacking(raw[r][1])) =>
            /\ resp[r].status = 400
            /\ raw[r][1].source = <<>> =>
                    resp[r].body.error.message = "Source field cannot be empty"
            /\ (raw[r][1].source # <<>> /\ raw[r][1].content_type = <<>>) =>
                    resp[r].body.error.message = "Content type field cannot be empty"
            /\ (raw[r][1].source # <<>> /\ raw[r][1].content_type # <<>>) =>
                    resp[r].body.error.message = "Payload cannot be null"

C13_Witness ==
    \E r \in Reqs :
        /\ Single(r) /\ Done(r)
        /\ raw[r][1].source = <<>> /\ raw[r][1].content_type = <<>>
        /\ raw[r][1].payload = "null"
        /\ resp[r].body.error.message = "Source field cannot be empty"

C13_WitnessSecond ==
    \E r \in Reqs :
        /\ Single(r) /\ Done(r)
        /\ raw[r][1].source # <<>> /\ raw[r][1].content_type = <<>>
        /\ raw[r][1].payload = "null"
        /\ resp[r].body.error.message = "Content type field cannot be empty"
C14_WitnessSupplied ==
    \E r \in Reqs :
        /\ Single(r) /\ Done(r) /\ resp[r].status = 201
        /\ raw[r][1].timestamp = <<7>>
        /\ calls[r][1].payload.timestamp = 7
        /\ resp[r].body.timestamp < 7
\* The status ingest_one answers with when the bus refuses the publish.
PublishFailureStatus == into_response(NatsPublishError("publish failed")).status

\* C15: a serialization failure in publish is treated as a publish failure:
\* nothing reaches the bus, ingest_one answers with the non-2xx status it
\* uses when the bus refuses the publish, and ingest_batch leaves the item
\* out and goes on with the items after it.
C15_SerializationFailureLikePublishFailure ==
    \A r \in Reqs :
        /\ \A j \in 1..Len(calls[r]) :
                calls[r][j].outcome = "ser_err" => calls[r][j].bytes = <<>>
        /\ (Single(r) /\ Done(r) /\ Len(calls[r]) = 1 /\ calls[r][1].outcome # "ok") =>
                /\ resp[r].status = PublishFailureStatus
                /\ resp[r].status \notin 200..299
        /\ (Batch(r) /\ Done(r) /\ Len(items[r]) > 0) =>
                /\ resp[r].status = 201
                /\ resp[r].body.count =
                        Cardinality({ j \in 1..Len(calls[r]) : calls[r][j].outcome = "ok" })
                /\ \A j \in 1..Len(calls[r]) :
                        calls[r][j].outcome = "ser_err" =>
                            \A k \in (calls[r][j].item + 1)..Len(items[r]) :
                                ~Lacking(items[r][k]) => CallsOf(r, k) # {}

C15_Witness ==
    \E r \in Reqs :
        /\ Batch(r) /\ Done(r) /\ Len(calls[r]) = 2
        /\ calls[r][1].outcome = "ser_err" /\ calls[r][1].bytes = <<>>
        /\ calls[r][2].outcome = "ok"
        /\ resp[r].body.ids = <<calls[r][2].payload.id>>

C15_WitnessSingle ==
    \E r \in Reqs :
        /\ Single(r) /\ Done(r) /\ Len(calls[r]) = 1
        /\ calls[r][1].outcome = "ser_err"
        /\ resp[r].status = 500
\* ingest_one answers 400 for the record.
IngestOneRefuses(rec) ==
    Validate(rec) # <<>> /\ into_response(Validate(rec)[1]).status = 400

\* C16: the batch path makes the same three checks as the single path: the
\* batch loop skips a record without a publish call exactly when ingest_one
\* answers 400 for it.
C16_BatchChecksAsSingle ==
    \A r \in Reqs :
        /\ (Single(r) /\ Done(r)) =>
                (resp[r].status = 400 <=> IngestOneRefuses(items[r][1]))
        /\ (Batch(r) /\ pc[r] \in {"loop", "done"}) =>
                \A k \in 1..idx[r] :
                    CallsOf(r, k) = {} <=> IngestOneRefuses(items[r][k])

C16_Witness ==
    \E r \in Reqs :
        /\ Batch(r) /\ Done(r) /\ Len(items[r]) = MaxBatch
        /\ items[r][1].source # <<>> /\ items[r][1].content_type # <<>>
        /\ items[r][1].payload = "null"
        /\ CallsOf(r, 1) = {}
        /\ CallsOf(r, MaxBatch) # {}
\* The outcomes of the publish calls a request has made, in call order.
OutcomesOf(r) == [j \in 1..Len(calls[r]) |-> calls[r][j].outcome]

\* The ids a batch collects when it runs on its own over the first n of its
\* items, the publishes coming out as in outs.
RECURSIVE AloneIds(_, _, _, _)
AloneIds(its, n, outs, k) ==
    IF k > n THEN <<>>
    ELSE IF Lacking(its[k]) THEN AloneIds(its, n, outs, k + 1)
    ELSE IF Head(outs) = "ok" THEN <<its[k].id>> \o AloneIds(its, n, Tail(outs), k + 1)
    ELSE AloneIds(its, n, Tail(outs), k + 1)

\* The status ingest_one gives a record when it runs on its own.
AloneStatus(rec, outs) ==
    IF Lacking(rec) THEN 400 ELSE IF outs = <<"ok">> THEN 201 ELSE 500

\* C17: requests handled concurrently do not interfere: whatever the
\* interleaving, what a request has collected and what it answers (status,
\* count, ids and their order) is what it would have on its own with the
\* same publish outcomes for its own items, and the ids of a batch are ids
\* of its own items.
C17_RequestsDoNotInterfere ==
    \A r \in Reqs :
        /\ (Batch(r) /\ pc[r] \in {"loop", "done"}) =>
                /\ successful_ids[r] = AloneIds(items[r], idx[r], OutcomesOf(r), 1)
                /\ \A j \in 1..Len(successful_ids[r]) :
                        \E k \in 1..Len(items[r]) : items[r][k].id = successful_ids[r][j]
        /\ (Batch(r) /\ Done(r)) =>
                IF Len(items[r]) = 0 THEN resp[r].status = 400
                ELSE /\ resp[r].status = 201
                     /\ resp[r].body.ids = AloneIds(items[r], Len(items[r]), OutcomesOf(r), 1)
                     /\ resp[r].body.count = Len(resp[r].body.ids)
        /\ (Single(r) /\ Done(r)) =>
                /\ resp[r].status = AloneStatus(items[r][1], OutcomesOf(r))
                /\ resp[r].status = 201 => resp[r].body.id = items[r][1].id

C17_Witness ==
    /\ Batch(1) /\ Batch(2)
    /\ pc[1] = "loop" /\ pc[2] = "loop"
    /\ idx[1] = 1 /\ idx[2] = 1
    /\ successful_ids[1] = <<1>> /\ successful_ids[2] = <<2>>
\* C18: a batch that has started runs to its end: every publish call
\* returning, ingest_batch on N items responds in the end, having visited
\* the N items one after the other, each once, with at most one publish call
\* per item visited, hence at most N.
C18_BatchRunsToCompletion ==
    /\ [](\A r \in Reqs :
            Batch(r) => /\ idx[r] <= Len(items[r])
                        /\ Len(calls[r]) <= idx[r]
                        /\ Done(r) => idx[r] = Len(items[r]) /\ resp[r] # NoResp)
    /\ [][\A r \in Reqs :
            (pc[r] = "loop" /\ pc'[r] = "loop") =>
                /\ idx'[r] \in {idx[r], idx[r] + 1}
                /\ idx'[r] = idx[r] => calls'[r] = calls[r]]_vars
    /\ \A r \in SeqReqs :
            (Batch(r) /\ pc[r] = "received") ~> (Batch(r) /\ Done(r))

C18_Witness ==
    \E r \in Reqs :
        /\ Batch(r) /\ Done(r) /\ resp[r].status = 201
        /\ Len(items[r]) = MaxBatch /\ idx[r] = MaxBatch
        /\ Len(calls[r]) = MaxBatch
Occurrences(seq, x) == Cardinality({ j \in 1..Len(seq) : seq[j] = x })

\* C19: ingest_batch does not deduplicate: well-formed items carrying the
\* same id are each published on their own, and the id stands in ids once
\* for each of them whose publish succeeded, so count is the number of items
\* published, which can exceed the number of distinct ids.
C19_NoDeduplication ==
    \A r \in Reqs :
        (Batch(r) /\ Done(r) /\ Len(items[r]) > 0) =>
            /\ \A k \in 1..Len(items[r]) :
                    ~Lacking(items[r][k]) => Cardinality(CallsOf(r, k)) = 1
            /\ \A k \in 1..Len(items[r]) :
                    Occurrences(resp[r].body.ids, items[r][k].id) =
                        Cardinality({ m \in PublishedOk(r) : items[r][m].id = items[r][k].id })
            /\ resp[r].body.count = Cardinality(PublishedOk(r))

C19_Witness ==
    \E r \in Reqs :
        /\ Batch(r) /\ Done(r) /\ Len(items[r]) = 2
        /\ items[r][1].id = 1 /\ items[r][2].id = 1
        /\ Len(calls[r]) = 2
        /\ resp[r].body.ids = <<1, 1>>
        /\ resp[r].body.count = 2
        /\ resp[r].body.count > Cardinality({ resp[r].body.ids[j] : j \in 1..2 })
====
